---- MODULE Spec2Model ----
(***************************************************************************)
(* A model of wordcount-mcp's TextAnalyzer (src/src/index.ts, lines 414 to *)
(* 546): one analyzer, built for a locale, and the six methods a caller    *)
(* can invoke on it.  A text is a sequence of characters drawn from a      *)
(* small repertoire that holds one character of every class the code and   *)
(* the Unicode segmentation rules it relies on tell apart.                 *)
(*                                                                         *)
(* Around it, the server of src/src/index.ts (lines 12 to 72) and the      *)
(* tools of wordcount-tools.ts (src/unnamed/part_000): a process that      *)
(* starts, registers five tools on one shared analyzer, serves the         *)
(* requests it receives and shuts down.                                    *)
(***************************************************************************)
EXTENDS Integers, Sequences, FiniteSets

VARIABLES
  analyzer,      \* the TextAnalyzer: its three segmenters
  text,          \* the argument the caller holds
  op,            \* the method the caller has called, "none" between calls
  result,        \* what that call returned or threw
  remembered,    \* a call the caller made earlier and kept the result of
  phase,         \* the server process: absent, starting, constructed,
                 \* registered, connected, running, exited
  registered,    \* the names of the tools registered on the server
  listeners,     \* the process events main has installed a listener for
  requests,      \* the requests received, each with how far its handling got
  responses,     \* the responses written to stdout
  invoked,       \* the analyzer methods invoked, with the request they served
  stderr,        \* the lines console.error has written
  closeCalls,    \* how many times server.close() was called
  closeOutcome,  \* how the close() that settled first ended
  exitCode       \* the code the process ended with, NotExited while it runs

serverVars ==
  <<phase, registered, listeners, requests, responses, invoked, stderr,
    closeCalls, closeOutcome, exitCode>>

vars == <<analyzer, text, op, result, remembered, serverVars>>

----------------------------------------------------------------------------
(* The character repertoire.                                               *)

LowerA == "a"          \* U+0061, a letter of a-z
UpperA == "A"          \* U+0041, a letter of A-Z
EAcute == "e-acute"    \* U+00E9, an accented Latin letter
Digit1 == "1"          \* U+0031
FullStop == "."        \* U+002E
Exclam == "!"          \* U+0021
Semicolon == ";"       \* U+003B
SP == "SP"             \* U+0020 SPACE
TAB == "TAB"           \* U+0009
LF == "LF"             \* U+000A
CR == "CR"             \* U+000D
NNBSP == "NNBSP"       \* U+202F NARROW NO-BREAK SPACE
Acute == "acute"       \* U+0301 COMBINING ACUTE ACCENT
ZWJ == "ZWJ"           \* U+200D ZERO WIDTH JOINER
Man == "man"           \* U+1F468 MAN, an emoji
RegionalA == "RI"      \* U+1F1E6 REGIONAL INDICATOR SYMBOL LETTER A

Chars ==
  {LowerA, UpperA, EAcute, Digit1, FullStop, Exclam, Semicolon,
   SP, TAB, LF, CR, NNBSP, Acute}

\* The characters that suffice to tell paragraphs apart.
ParChars == {LowerA, SP, LF, CR}

\* The characters that suffice to tell words apart where whitespace is
\* concerned: a letter, a character that joins letters, a combining mark and
\* the whitespace.
WordChars == {LowerA, FullStop, SP, TAB, LF, CR, NNBSP, Acute}

\* The characters that suffice to tell grapheme clusters apart where several
\* code points make one: a base, a combining mark, and what emoji sequences
\* and flags are made of.
GraphemeChars == {LowerA, Acute, ZWJ, Man, RegionalA}

\* The characters of the texts a caller goes through in a sequence of calls:
\* with them the counts differ from text to text and from locale to locale.
CallChars == {LowerA, Semicolon, SP}

\* ECMAScript WhiteSpace and LineTerminator: what \s matches and trim() strips.
IsWhiteSpace(c) == c \in {SP, TAB, LF, CR, NNBSP}

----------------------------------------------------------------------------
(* Bounds of the model.                                                    *)

MaxLen == 3       \* longest text over Chars
MaxParLen == 6    \* longest text over ParChars
MaxPaddedLen == 5      \* longest text over ParChars that is padded
MaxBlankLen == 5       \* longest text over BlankChars
MaxGraphemeLen == 5    \* longest text over GraphemeChars
MaxCallLen == 2        \* longest text over CallChars
MaxRequests == 2       \* requests the server receives in one run
MaxShutdowns == 2      \* shutdown triggers the process receives in one run

----------------------------------------------------------------------------
(* Values handed to a method: a string, or null / undefined / a number     *)
(* passed "as any".  A number is given with its decimal digits.            *)

Str(s) == [kind |-> "string", chars |-> s]
Null == [kind |-> "null", chars |-> <<>>]
Undefined == [kind |-> "undefined", chars |-> <<>>]
Zero == [kind |-> "number", chars |-> <<"0">>]
One == [kind |-> "number", chars |-> <<Digit1>>]

\* !text
Falsy(t) ==
  \/ t.kind \in {"null", "undefined"}
  \/ t.kind = "string" /\ t.chars = <<>>
  \/ t = Zero

\* What a method call ends with.
Return(v) == [threw |-> FALSE, value |-> v]
Throw == [threw |-> TRUE, error |-> "TypeError"]

RECURSIVE SeqsUpTo(_, _)
SeqsUpTo(S, n) ==
  IF n = 0 THEN {<<>>}
  ELSE LET shorter == SeqsUpTo(S, n - 1)
       IN  shorter \cup {Append(s, c) : s \in {x \in shorter : Len(x) = n - 1}, c \in S}

Max(S) == CHOOSE m \in S : \A k \in S : k <= m

----------------------------------------------------------------------------
(* String.prototype.trim                                                   *)

RECURSIVE trimStart(_)
trimStart(s) ==
  IF s # <<>> /\ IsWhiteSpace(Head(s)) THEN trimStart(Tail(s)) ELSE s

RECURSIVE trimEnd(_)
trimEnd(s) ==
  IF s # <<>> /\ IsWhiteSpace(s[Len(s)]) THEN trimEnd(SubSeq(s, 1, Len(s) - 1)) ELSE s

\* Variant: a trim that strips U+0020 only.
RECURSIVE trim_spacesOnly(_)
trim_spacesOnly(s) ==
  IF s # <<>> /\ Head(s) = SP THEN trim_spacesOnly(Tail(s))
  ELSE IF s # <<>> /\ s[Len(s)] = SP THEN trim_spacesOnly(SubSeq(s, 1, Len(s) - 1))
  ELSE s

trim(s) == trimEnd(trimStart(s))

----------------------------------------------------------------------------
(* countLetters: text.match(/[a-zA-Z]/g)                                   *)

\* Variant: the class taken to be every letter (\p{L}) instead of a-zA-Z.
IsAsciiLetter_anyLetter(c) == c \in {LowerA, UpperA, EAcute}

IsAsciiLetter(c) == c \in {LowerA, UpperA}

\* The array of matches of /[a-zA-Z]/g, or null (here <<>>) when there is none.
matchLetters(s) == SelectSeq(s, IsAsciiLetter)

\* Variant: letters.length read without the test for null.
countLetters_noNullTest(a, t) ==
  IF Falsy(t) THEN Return(0)
  ELSE IF t.kind # "string" THEN Throw
  ELSE LET letters == matchLetters(t.chars)
       IN  IF letters # <<>> THEN Return(Len(letters)) ELSE Throw

countLetters(a, t) ==
  IF Falsy(t) THEN Return(0)
  ELSE IF t.kind # "string" THEN Throw
  ELSE LET letters == matchLetters(t.chars)
       IN  Return(IF letters # <<>> THEN Len(letters) ELSE 0)

----------------------------------------------------------------------------
(* countParagraphs: text.split(/\n\s*\n|\r\n\s*\r\n/), then the filter.      *)

\* The index after the longest run of whitespace that starts at i: greedy \s*.
RECURSIVE SpaceRunEnd(_, _)
SpaceRunEnd(s, i) ==
  IF i <= Len(s) /\ IsWhiteSpace(s[i]) THEN SpaceRunEnd(s, i + 1) ELSE i

\* Variant: the pattern \n\n, without \s* between the line feeds.
LfBreakEnd_adjacent(s, i) ==
  IF s[i] = LF /\ i + 1 <= Len(s) /\ s[i + 1] = LF THEN i + 2 ELSE 0

\* Variant: the pattern \n, a single line feed.
LfBreakEnd_single(s, i) == IF s[i] = LF THEN i + 1 ELSE 0

\* \n\s*\n tried at i: the index after the match, 0 when it fails.  \s* takes
\* all the whitespace it can and gives back until a \n follows.
LfBreakEnd(s, i) ==
  IF s[i] # LF THEN 0
  ELSE LET e == SpaceRunEnd(s, i + 1)
           closing == {k \in (i + 1)..(e - 1) : s[k] = LF}
       IN  IF closing = {} THEN 0 ELSE Max(closing) + 1

\* \r\n\s*\r\n tried at i.
CrLfBreakEnd(s, i) ==
  IF ~(i + 1 <= Len(s) /\ s[i] = CR /\ s[i + 1] = LF) THEN 0
  ELSE LET e == SpaceRunEnd(s, i + 2)
           closing == {k \in (i + 2)..(e - 2) : s[k] = CR /\ s[k + 1] = LF}
       IN  IF closing = {} THEN 0 ELSE Max(closing) + 2

\* The whole pattern tried at i: the first alternative, then the second.
ParagraphBreakEnd(s, i) ==
  IF LfBreakEnd(s, i) # 0 THEN LfBreakEnd(s, i) ELSE CrLfBreakEnd(s, i)

\* String.prototype.split with the pattern: p is where the current piece
\* starts, q where the pattern is tried next.
RECURSIVE splitFrom(_, _, _)
splitFrom(s, p, q) ==
  IF q > Len(s) THEN <<SubSeq(s, p, Len(s))>>
  ELSE LET e == ParagraphBreakEnd(s, q)
       IN  IF e = 0 THEN splitFrom(s, p, q + 1)
           ELSE <<SubSeq(s, p, q - 1)>> \o splitFrom(s, e, e)

splitParagraphs(s) == splitFrom(s, 1, 1)

\* Variant: no filter, every piece counted.
NonEmptyParagraph_all(p) == TRUE

\* Variant: a filter that drops the pieces that start with whitespace.
NonEmptyParagraph_leading(p) == p # <<>> /\ ~IsWhiteSpace(Head(p))

\* Variant: the filter without trim().
NonEmptyParagraph_noTrim(p) == p # <<>>

NonEmptyParagraph(p) == trim(p) # <<>>

countParagraphs(a, t) ==
  IF Falsy(t) THEN Return(0)
  ELSE IF t.kind # "string" THEN Throw
  ELSE IF trim(t.chars) = <<>> THEN Return(0)
  ELSE LET paragraphs == splitParagraphs(t.chars)
           nonEmptyParagraphs == SelectSeq(paragraphs, NonEmptyParagraph)
       IN  Return(Len(nonEmptyParagraphs))

----------------------------------------------------------------------------
(* Intl.Segmenter.  The constructor binds a locale and a granularity; the  *)
(* segments are those of the Unicode text segmentation rules (UAX #29, as  *)
(* the comments of countSentences say), restricted to the repertoire.     *)

\* "en-US" is the default; the Greek rules differ from it on the repertoire.
Locales == {"en-US", "el-GR"}
DefaultLocale == "en-US"

Segmenter(locale, granularity) == [locale |-> locale, granularity |-> granularity]

\* new TextAnalyzer(locale)
TextAnalyzer(locale) ==
  [graphemeSegmenter |-> Segmenter(locale, "grapheme"),
   wordSegmenter     |-> Segmenter(locale, "word"),
   sentenceSegmenter |-> Segmenter(locale, "sentence")]

\* ToString, which segment() applies to its argument.
ToString(t) ==
  CASE t.kind = "null"      -> [i \in 1..4 |-> LowerA]      \* "null"
    [] t.kind = "undefined" -> [i \in 1..9 |-> LowerA]      \* "undefined"
    [] OTHER                -> t.chars

\* The pieces of s when it is cut after every index of cuts.
Pieces(s, cuts) ==
  LET ends == cuts \cup {Len(s)}
      nth(k) == CHOOSE e \in ends : Cardinality({x \in ends : x <= e}) = k
  IN  IF s = <<>> THEN <<>>
      ELSE [k \in 1..Cardinality(ends) |->
              SubSeq(s, IF k = 1 THEN 1 ELSE nth(k - 1) + 1, nth(k))]

\* The characters the rules attach to what precedes them.
IsMark(c) == c \in {Acute, ZWJ}

\* Where a run of combining marks ending at i began: the character the rules
\* "X Extend* -> X" (GB9, WB4, SB5) make it part of.  A mark at the start of
\* the text or after a line ending stands alone.
RECURSIVE BaseOf(_, _)
BaseOf(s, i) ==
  IF IsMark(s[i]) /\ i > 1 /\ s[i - 1] \notin {CR, LF} THEN BaseOf(s, i - 1) ELSE i

\* The first index after i that holds no combining mark (Len(s) + 1 if none).
RECURSIVE SkipMarks(_, _)
SkipMarks(s, i) ==
  IF i + 1 <= Len(s) /\ IsMark(s[i + 1]) THEN SkipMarks(s, i + 1) ELSE i + 1

\* The regional indicators that end at i, one after the other.
RECURSIVE RegionalRun(_, _)
RegionalRun(s, i) ==
  IF i >= 1 /\ s[i] = RegionalA THEN 1 + RegionalRun(s, i - 1) ELSE 0

\* An emoji, then combining marks, ends just before i.
RECURSIVE EmojiBefore(_, _)
EmojiBefore(s, i) ==
  /\ i > 1
  /\ \/ s[i - 1] = Man
     \/ s[i - 1] = Acute /\ EmojiBefore(s, i - 1)

(* Grapheme clusters: GB3 CR x LF, GB4 and GB5 break around controls,      *)
(* GB9 no break before Extend or ZWJ, GB11 none inside an emoji sequence,  *)
(* GB12 and GB13 none inside a pair of regional indicators, GB999 break    *)
(* everywhere else.                                                        *)
GraphemeBreakAfter(s, i) ==
  /\ ~(s[i] = CR /\ s[i + 1] = LF)
  /\ \/ s[i] \in {CR, LF, TAB}
     \/ s[i + 1] \in {CR, LF, TAB}
     \/ /\ ~IsMark(s[i + 1])
        /\ ~(s[i] = ZWJ /\ s[i + 1] = Man /\ EmojiBefore(s, i))
        /\ ~(s[i + 1] = RegionalA /\ RegionalRun(s, i) % 2 = 1)

(* Word boundaries.                                                        *)
WordClass(c) ==
  CASE c \in {LowerA, UpperA, EAcute} -> "ALetter"
    [] c = Digit1                     -> "Numeric"
    [] c = FullStop                   -> "MidNumLet"
    [] c = Semicolon                  -> "MidNum"
    [] c = NNBSP                      -> "ExtendNumLet"
    [] c = SP                         -> "WSegSpace"
    [] c = LF                         -> "LF"
    [] c = CR                         -> "CR"
    [] c \in {Acute, ZWJ}             -> "Extend"
    [] c = RegionalA                  -> "Regional_Indicator"
    [] OTHER                          -> "Other"

\* The class position i counts as, marks taken with their base (WB4);
\* "none" outside the text.
WordClassAt(s, i) ==
  IF i < 1 \/ i > Len(s) THEN "none" ELSE WordClass(s[BaseOf(s, i)])

WordBreakAfter(s, i) ==
  LET l  == WordClassAt(s, i)
      ll == WordClassAt(s, BaseOf(s, i) - 1)
      r  == WordClass(s[i + 1])
      rr == WordClassAt(s, SkipMarks(s, i + 1))
  IN  ~ \/ s[i] = CR /\ s[i + 1] = LF                                   \* WB3
        \/ /\ s[i] \notin {CR, LF}                                      \* WB3a
           /\ s[i + 1] \notin {CR, LF}                                  \* WB3b
           /\ \/ s[i] = SP /\ s[i + 1] = SP                             \* WB3d
              \/ s[i] = ZWJ /\ s[i + 1] = Man                           \* WB3c
              \/ r = "Extend"                                           \* WB4
              \/ l = "ALetter" /\ r = "ALetter"                         \* WB5
              \/ l = "ALetter" /\ r = "MidNumLet" /\ rr = "ALetter"     \* WB6
              \/ ll = "ALetter" /\ l = "MidNumLet" /\ r = "ALetter"     \* WB7
              \/ l = "Numeric" /\ r = "Numeric"                         \* WB8
              \/ l = "ALetter" /\ r = "Numeric"                         \* WB9
              \/ l = "Numeric" /\ r = "ALetter"                         \* WB10
              \/ /\ ll = "Numeric" /\ l \in {"MidNum", "MidNumLet"}     \* WB11
                 /\ r = "Numeric"
              \/ /\ l = "Numeric" /\ r \in {"MidNum", "MidNumLet"}      \* WB12
                 /\ rr = "Numeric"
              \/ /\ l \in {"ALetter", "Numeric", "ExtendNumLet"}        \* WB13a
                 /\ r = "ExtendNumLet"
              \/ l = "ExtendNumLet" /\ r \in {"ALetter", "Numeric"}     \* WB13b
              \/ /\ r = "Regional_Indicator"                     \* WB15, WB16
                 /\ RegionalRun(s, BaseOf(s, i)) % 2 = 1

\* isWordLike: the rule that matched the end of the segment is tagged as a
\* number or a letter.  The rules ending on a letter or a digit, with the
\* marks that follow it, are; so are those that join an ExtendNumLet character
\* to what precedes it, but not the rule that hangs marks on that character.
IsWordLike(seg) ==
  LET n == Len(seg)
      c == WordClassAt(seg, n)
  IN  \/ c \in {"ALetter", "Numeric"}
      \/ c = "ExtendNumLet" /\ seg[n] = NNBSP /\ n >= 2

(* Sentence boundaries.  The Greek rules make the semicolon a terminator.  *)
SentenceClass(locale, c) ==
  CASE c \in {LowerA, EAcute}  -> "Lower"
    [] c = UpperA              -> "Upper"
    [] c = Digit1              -> "Numeric"
    [] c = FullStop            -> "ATerm"
    [] c = Exclam              -> "STerm"
    [] c = Semicolon           -> IF locale = "el-GR" THEN "STerm" ELSE "Other"
    [] c \in {SP, TAB, NNBSP}  -> "Sp"
    [] c = LF                  -> "LF"
    [] c = CR                  -> "CR"
    [] c \in {Acute, ZWJ}      -> "Extend"
    [] OTHER                   -> "Other"

SentenceClassAt(locale, s, i) ==
  IF i < 1 \/ i > Len(s) THEN "none" ELSE SentenceClass(locale, s[BaseOf(s, i)])

\* The index of the terminator that a run "SATerm Sp*" ending at i starts
\* with, 0 when position i does not end such a run.
RECURSIVE TerminatorBefore(_, _, _)
TerminatorBefore(locale, s, i) ==
  LET c == SentenceClassAt(locale, s, i)
  IN  IF c \in {"ATerm", "STerm"} THEN BaseOf(s, i)
      ELSE IF c = "Sp" THEN TerminatorBefore(locale, s, BaseOf(s, i) - 1)
      ELSE 0

\* SB8: after "ATerm Sp*", anything but letters, separators and terminators
\* may come before a lower-case letter that continues the sentence.
RECURSIVE LowerFollows(_, _, _)
LowerFollows(locale, s, j) ==
  IF j > Len(s) THEN FALSE
  ELSE LET c == SentenceClass(locale, s[j])
       IN  IF c = "Lower" THEN TRUE
           ELSE IF c \in {"Upper", "LF", "CR", "ATerm", "STerm"} THEN FALSE
           ELSE LowerFollows(locale, s, j + 1)

SentenceBreakAfter(locale, s, i) ==
  LET t  == TerminatorBefore(locale, s, i)
      sp == t # 0 /\ t # BaseOf(s, i)          \* spaces follow the terminator
      tc == SentenceClassAt(locale, s, t)
      r  == SentenceClass(locale, s[i + 1])
  IN  /\ ~(s[i] = CR /\ s[i + 1] = LF)                                  \* SB3
      /\ \/ s[i] \in {CR, LF}                                           \* SB4
         \/ /\ r # "Extend"                                             \* SB5
            /\ t # 0                                                     \* SB998
            /\ ~(~sp /\ tc = "ATerm" /\ r = "Numeric")                  \* SB6
            /\ ~(/\ ~sp /\ tc = "ATerm" /\ r = "Upper"                  \* SB7
                 /\ SentenceClassAt(locale, s, t - 1) \in {"Upper", "Lower"})
            /\ ~(tc = "ATerm" /\ LowerFollows(locale, s, i + 1))        \* SB8
            /\ r \notin {"SContinue", "ATerm", "STerm"}                 \* SB8a
            /\ r \notin {"Sp", "LF", "CR"}                              \* SB9, SB10

\* segmenter.segment(text), spread into an array of segments.
segment(segmenter, t) ==
  LET s == ToString(t)
      between == 1..(Len(s) - 1)
      cuts ==
        CASE segmenter.granularity = "grapheme" ->
               {i \in between : GraphemeBreakAfter(s, i)}
          [] segmenter.granularity = "word" ->
               {i \in between : WordBreakAfter(s, i)}
          [] OTHER ->
               {i \in between : SentenceBreakAfter(segmenter.locale, s, i)}
      pieces == Pieces(s, cuts)
  IN  [k \in 1..Len(pieces) |->
         [segment    |-> pieces[k],
          isWordLike |-> segmenter.granularity = "word" /\ IsWordLike(pieces[k])]]

----------------------------------------------------------------------------
(* The three counts that segment.                                          *)

\* Variant: the code points counted, not the segments.
countCharacters_codePoints(a, t) ==
  IF Falsy(t) THEN Return(0) ELSE Return(Len(ToString(t)))

\* Variant: the test for an empty or absent text left out.
countCharacters_noGuard(a, t) ==
  Return(Len(segment(a.graphemeSegmenter, t)))

countCharacters(a, t) ==
  IF Falsy(t) THEN Return(0)
  ELSE LET segments == segment(a.graphemeSegmenter, t)
       IN  Return(Len(segments))

\* Variant: every segment counted, isWordLike not looked at.
SegmentIsWordLike_all(sg) == TRUE

SegmentIsWordLike(sg) == sg.isWordLike

countWords(a, t) ==
  IF Falsy(t) THEN Return(0)
  ELSE LET segments == segment(a.wordSegmenter, t)
       IN  Return(Len(SelectSeq(segments, SegmentIsWordLike)))

\* Variant: every segment counted, blank or not.
SegmentIsNotBlank_all(sg) == TRUE

SegmentIsNotBlank(sg) == trim(sg.segment) # <<>>

countSentences(a, t) ==
  IF Falsy(t) THEN Return(0)
  ELSE IF t.kind # "string" THEN Throw
  ELSE IF trim(t.chars) = <<>> THEN Return(0)
  ELSE Return(Len(SelectSeq(segment(a.sentenceSegmenter, t), SegmentIsNotBlank)))

\* Variant: letterCount and characterCount filled from each other's method.
analyzeText_swapped(a, t) ==
  LET counts == <<countWords(a, t), countCharacters(a, t), countLetters(a, t),
                  countSentences(a, t), countParagraphs(a, t)>>
  IN  IF \E k \in 1..5 : counts[k].threw THEN Throw
      ELSE Return([wordCount      |-> counts[1].value,
                   letterCount    |-> counts[2].value,
                   characterCount |-> counts[3].value,
                   sentenceCount  |-> counts[4].value,
                   paragraphCount |-> counts[5].value])

\* analyzeText: the five counts in the order the object literal lists them;
\* the first that throws ends the call.
analyzeText(a, t) ==
  LET counts == <<countWords(a, t), countLetters(a, t), countCharacters(a, t),
                  countSentences(a, t), countParagraphs(a, t)>>
  IN  IF \E k \in 1..5 : counts[k].threw THEN Throw
      ELSE Return([wordCount      |-> counts[1].value,
                   letterCount    |-> counts[2].value,
                   characterCount |-> counts[3].value,
                   sentenceCount  |-> counts[4].value,
                   paragraphCount |-> counts[5].value])

----------------------------------------------------------------------------
(* The state machine: an analyzer built once, and calls of its methods.    *)

Texts == {Str(s) : s \in SeqsUpTo(Chars, MaxLen)}
ParTexts == {Str(s) : s \in SeqsUpTo(ParChars, MaxParLen)}
PaddedTexts == {Str(s) : s \in SeqsUpTo(ParChars, MaxPaddedLen)}

\* A letter, the line-ending characters and whitespace of every other sort.
BlankChars == {LowerA, SP, TAB, LF, CR, NNBSP}
BlankTexts == {Str(s) : s \in SeqsUpTo(BlankChars, MaxBlankLen)}
WordTexts == {Str(s) : s \in SeqsUpTo(WordChars, MaxLen)}
GraphemeTexts == {Str(s) : s \in SeqsUpTo(GraphemeChars, MaxGraphemeLen)}
NonStrings == {Null, Undefined, Zero, One}

Methods ==
  {"countCharacters", "countWords", "countLetters", "countParagraphs",
   "countSentences", "analyzeText"}

NoResult == [threw |-> FALSE, none |-> TRUE]

NoCall == [method |-> "none"]

NotExited == 0 - 1

\* The analyzer used as a library: no server process around it.
NoServer ==
  /\ phase = "absent"
  /\ registered = {}
  /\ listeners = {}
  /\ requests = {}
  /\ responses = {}
  /\ invoked = {}
  /\ stderr = {}
  /\ closeCalls = 0
  /\ closeOutcome = "none"
  /\ exitCode = NotExited

Init ==
  /\ analyzer \in {TextAnalyzer(l) : l \in Locales}
  /\ text \in Texts \cup NonStrings
  /\ op = "none"
  /\ result = NoResult
  /\ remembered = NoCall
  /\ NoServer

InitParagraphs ==
  /\ analyzer = TextAnalyzer(DefaultLocale)
  /\ text \in ParTexts
  /\ op = "none"
  /\ result = NoResult
  /\ remembered = NoCall
  /\ NoServer

InitWords ==
  /\ analyzer = TextAnalyzer(DefaultLocale)
  /\ text \in WordTexts
  /\ op = "none"
  /\ result = NoResult
  /\ remembered = NoCall
  /\ NoServer

InitGraphemes ==
  /\ analyzer = TextAnalyzer(DefaultLocale)
  /\ text \in GraphemeTexts
  /\ op = "none"
  /\ result = NoResult
  /\ remembered = NoCall
  /\ NoServer

CallTexts == {Str(s) : s \in SeqsUpTo(CallChars, MaxCallLen)} \cup {Null}

InitCalls ==
  /\ analyzer \in {TextAnalyzer(l) : l \in Locales}
  /\ text \in CallTexts
  /\ op = "none"
  /\ result = NoResult
  /\ remembered = NoCall
  /\ NoServer

\* Variant: a call leaves the analyzer with segmenters of the default locale.
Call_newSegmenters(method, outcome) ==
  /\ op = "none"
  /\ op' = method
  /\ result' = outcome
  /\ analyzer' = TextAnalyzer(DefaultLocale)
  /\ UNCHANGED <<text, remembered, serverVars>>

\* A call runs to completion on the caller's turn: the caller makes one call
\* at a time and holds its result until it looks at it.
Call(method, outcome) ==
  /\ op = "none"
  /\ op' = method
  /\ result' = outcome
  /\ UNCHANGED <<analyzer, text, remembered, serverVars>>

CountCharacters == Call("countCharacters", countCharacters(analyzer, text))
CountWords == Call("countWords", countWords(analyzer, text))
CountLetters == Call("countLetters", countLetters(analyzer, text))
CountParagraphs == Call("countParagraphs", countParagraphs(analyzer, text))
CountSentences == Call("countSentences", countSentences(analyzer, text))
AnalyzeText == Call("analyzeText", analyzeText(analyzer, text))

\* The caller has looked at the result and is free to call again.
TakeResult ==
  /\ op # "none"
  /\ op' = "none"
  /\ result' = NoResult
  /\ UNCHANGED <<analyzer, text, remembered, serverVars>>

Next ==
  \/ CountCharacters
  \/ CountWords
  \/ CountLetters
  \/ CountParagraphs
  \/ CountSentences
  \/ AnalyzeText
  \/ TakeResult

\* Between two calls the caller takes up another text.
NextText ==
  /\ op = "none"
  /\ text' \in CallTexts \ {text}
  /\ UNCHANGED <<analyzer, op, result, remembered, serverVars>>

\* The caller keeps the result it holds, to compare later ones with.
Remember ==
  /\ op # "none"
  /\ remembered' = [method |-> op, text |-> text, result |-> result]
  /\ UNCHANGED <<analyzer, text, op, result, serverVars>>

NextCalls ==
  \/ Next
  \/ NextText
  \/ Remember

Spec == Init /\ [][Next]_vars
SpecCalls == InitCalls /\ [][NextCalls]_vars
SpecParagraphs == InitParagraphs /\ [][Next]_vars
SpecWords == InitWords /\ [][Next]_vars

\* The caller that only counts paragraphs, of the texts that are padded.
InitPadded ==
  /\ analyzer = TextAnalyzer(DefaultLocale)
  /\ text \in PaddedTexts
  /\ op = "none"
  /\ result = NoResult
  /\ remembered = NoCall
  /\ NoServer

NextParagraphs == CountParagraphs \/ TakeResult

\* The caller that counts the paragraphs of a text or of an absent one.
InitBlank ==
  /\ analyzer = TextAnalyzer(DefaultLocale)
  /\ text \in BlankTexts \cup {Null, Undefined}
  /\ op = "none"
  /\ result = NoResult
  /\ remembered = NoCall
  /\ NoServer

SpecBlank == InitBlank /\ [][NextParagraphs]_vars

SpecPadded == InitPadded /\ [][NextParagraphs]_vars
SpecGraphemes == InitGraphemes /\ [][Next]_vars

----------------------------------------------------------------------------
(* Properties.                                                             *)

Counting ==
  {"countCharacters", "countWords", "countLetters", "countParagraphs",
   "countSentences"}

IsText(t) == t.kind \in {"string", "null", "undefined"}

\* C1: analyzeText, given a string or an absent text, returns a result each
\* of whose five fields is what the single count of the same name returns
\* for the same text on the same analyzer.
C1_AnalyzeTextConsistent ==
  (op = "analyzeText" /\ IsText(text)) =>
    /\ ~result.threw
    /\ Return(result.value.wordCount) = countWords(analyzer, text)
    /\ Return(result.value.letterCount) = countLetters(analyzer, text)
    /\ Return(result.value.characterCount) = countCharacters(analyzer, text)
    /\ Return(result.value.sentenceCount) = countSentences(analyzer, text)
    /\ Return(result.value.paragraphCount) = countParagraphs(analyzer, text)

C1_Witness ==
  /\ op = "analyzeText"
  /\ text = Str(<<LowerA, Exclam, UpperA>>)
  /\ result = Return([wordCount |-> 2, letterCount |-> 2, characterCount |-> 3,
                      sentenceCount |-> 2, paragraphCount |-> 1])

\* C2: on every string, the empty one included, each of the five counts
\* returns a natural number and does not throw.
C2_Totality ==
  (op \in Counting /\ text.kind = "string") =>
    (~result.threw /\ result.value \in Nat)

C2_Witness ==
  /\ op = "countLetters"
  /\ text = Str(<<Digit1, SP, Exclam>>)
  /\ result = Return(0)

AllZero ==
  [wordCount |-> 0, letterCount |-> 0, characterCount |-> 0,
   sentenceCount |-> 0, paragraphCount |-> 0]

\* C3: for the empty string, null and undefined each of the five counts
\* returns 0 and analyzeText returns five zeros.
C3_ZeroOnEmptyOrAbsent ==
  (text \in {Str(<<>>), Null, Undefined}) =>
    /\ op \in Counting => result = Return(0)
    /\ op = "analyzeText" => result = Return(AllZero)

C3_Witness ==
  /\ text = Undefined
  /\ op = "countCharacters"
  /\ result = Return(0)

\* The number of characters of s that lie in a-z or in A-Z.
RECURSIVE AsciiLetterCount(_)
AsciiLetterCount(s) ==
  IF s = <<>> THEN 0
  ELSE (IF Head(s) \in {LowerA, UpperA} THEN 1 ELSE 0) + AsciiLetterCount(Tail(s))

\* C4: countLetters returns the number of characters in a-z or A-Z; digits,
\* punctuation, whitespace, accented and combining characters add nothing,
\* and the analyzer's locale makes no difference.
C4_LettersAreAsciiOnly ==
  (op = "countLetters" /\ text.kind = "string") =>
    /\ result = Return(AsciiLetterCount(text.chars))
    /\ \A l \in Locales : countLetters(TextAnalyzer(l), text) = result

C4_Witness ==
  /\ op = "countLetters"
  /\ analyzer = TextAnalyzer("el-GR")
  /\ text = Str(<<UpperA, EAcute, LowerA>>)
  /\ result = Return(2)

----------------------------------------------------------------------------
(* Paragraphs.                                                             *)

NotBlank(s) == \E i \in 1..Len(s) : ~IsWhiteSpace(s[i])

\* The length of the line ending that starts at i: 1 for \n, 2 for \r\n,
\* 0 when none starts there.
LineBreakLen(s, i) ==
  IF i < 1 \/ i > Len(s) THEN 0
  ELSE IF s[i] = LF THEN 1
  ELSE IF s[i] = CR /\ i + 1 <= Len(s) /\ s[i + 1] = LF THEN 2
  ELSE 0

IsHorizontalSpace(c) == IsWhiteSpace(c) /\ c \notin {LF, CR}

RECURSIVE HorizontalRunEnd(_, _)
HorizontalRunEnd(s, i) ==
  IF i <= Len(s) /\ IsHorizontalSpace(s[i]) THEN HorizontalRunEnd(s, i + 1) ELSE i

\* A boundary as C5 words it, starting at i: a line break, horizontal
\* whitespace, a line break.  The index after it, 0 when none starts at i.
HorizontalBreakEnd(s, i) ==
  LET n == LineBreakLen(s, i)
      k == HorizontalRunEnd(s, i + n)
      m == LineBreakLen(s, k)
  IN  IF n = 0 \/ m = 0 THEN 0 ELSE k + m

\* The same with whitespace of any kind between the two line breaks, and as
\* much of it as can be had.
WhitespaceBreakEnd(s, i) ==
  LET n == LineBreakLen(s, i)
      e == SpaceRunEnd(s, i + n)
      closing == {k \in (i + n)..(e - 1) : LineBreakLen(s, k) > 0}
  IN  IF n = 0 \/ closing = {} THEN 0
      ELSE Max(closing) + LineBreakLen(s, Max(closing))

\* s split at the boundaries that ends gives (ends[q] is the index after the
\* boundary starting at q, or 0), from the left.
RECURSIVE SplitAt(_, _, _, _)
SplitAt(s, ends, p, q) ==
  IF q > Len(s) THEN <<SubSeq(s, p, Len(s))>>
  ELSE IF ends[q] = 0 THEN SplitAt(s, ends, p, q + 1)
  ELSE <<SubSeq(s, p, q - 1)>> \o SplitAt(s, ends, ends[q], ends[q])

RemainingSegments(s, ends) == Len(SelectSeq(SplitAt(s, ends, 1, 1), NotBlank))

ParagraphCallOn(s) ==
  op = "countParagraphs" /\ text.kind = "string" /\ s = text.chars

\* C5 as stated: for a text that is not blank, countParagraphs is the number
\* of non-blank segments between boundaries made of a line break, horizontal
\* whitespace and a line break.  Horizontal whitespace is whitespace other
\* than the line-ending characters \n and \r.
C5_Stated ==
  \A s \in {text.chars} :
    (ParagraphCallOn(s) /\ NotBlank(s)) =>
      result = Return(RemainingSegments(s, [i \in 1..Len(s) |-> HorizontalBreakEnd(s, i)]))

\* C5 as amended: for a text that is not blank, countParagraphs is the number
\* of non-blank segments between boundaries made of a line break, whitespace
\* of any kind (carriage returns and line feeds included) and a line break.
C5_Amended ==
  \A s \in {text.chars} :
    (ParagraphCallOn(s) /\ NotBlank(s)) =>
      result = Return(RemainingSegments(s, [i \in 1..Len(s) |-> WhitespaceBreakEnd(s, i)]))

C5_Witness ==
  /\ ParagraphCallOn(<<LowerA, LF, CR, SP, LF, LowerA>>)
  /\ result = Return(2)

Insert(s, i, x) == SubSeq(s, 1, i) \o x \o SubSeq(s, i + 1, Len(s))

LineBreaks == {<<LF>>, <<CR, LF>>}

ParagraphsOf(s) == countParagraphs(analyzer, Str(s))

\* C6: where two line breaks follow each other, one more line break put
\* before, between or after them leaves the count as it is; and a run of
\* three or more line breaks between two characters that are not whitespace
\* is one boundary: the count is that of the text before the run plus that
\* of the text after it.
C6_ExtraBlankLines ==
  \A s \in {text.chars} :
    ParagraphCallOn(s) =>
      /\ \A i \in 1..Len(s) :
           LET n == LineBreakLen(s, i)
               m == LineBreakLen(s, i + n)
           IN  (n > 0 /\ m > 0) =>
                 \A at \in {i - 1, i + n - 1, i + n + m - 1}, b \in LineBreaks :
                   ParagraphsOf(Insert(s, at, b)) = result
      /\ \A i, j \in 1..Len(s) :
           ( /\ i < j /\ ~IsWhiteSpace(s[i]) /\ ~IsWhiteSpace(s[j])
             /\ \A k \in (i + 1)..(j - 1) :
                  s[k] = LF \/ (s[k] = CR /\ s[k + 1] = LF)
             /\ Cardinality({k \in (i + 1)..(j - 1) : s[k] = LF}) >= 3 ) =>
             result.value = ParagraphsOf(SubSeq(s, 1, i)).value
                              + ParagraphsOf(SubSeq(s, j, Len(s))).value

C6_Witness ==
  /\ ParagraphCallOn(<<LowerA, LF, LF, LF, LF, LowerA>>)
  /\ result = Return(2)

\* No two line feeds of s with nothing but whitespace between them.
NoDoubleBreak(s) ==
  ~ \E i, j \in 1..Len(s) :
      /\ i < j /\ s[i] = LF /\ s[j] = LF
      /\ \A k \in (i + 1)..(j - 1) : IsWhiteSpace(s[k])

\* C7: a text that is not blank and in which no two line breaks have only
\* whitespace between them is one paragraph.
C7_SingleBreakNeverSplits ==
  \A s \in {text.chars} :
    (ParagraphCallOn(s) /\ NotBlank(s) /\ NoDoubleBreak(s)) => result = Return(1)

C7_Witness ==
  /\ ParagraphCallOn(<<LowerA, LF, LowerA, CR, LF, LowerA>>)
  /\ result = Return(1)

MaxPad == 2    \* longest run of whitespace put before or after a text

\* The runs of whitespace, out of W, that may be added: one to MaxPad long.
Pads(W) == SeqsUpTo(W, MaxPad) \ {<<>>}

\* C8: whitespace and line breaks put before a text, after it, or both,
\* leave its paragraph count as it is.
C8_BlankEndsAddNothing ==
  \A s \in {text.chars} :
    ParagraphCallOn(s) =>
      \A pad \in Pads({SP, LF, CR}) :
        /\ ParagraphsOf(pad \o s) = result
        /\ ParagraphsOf(s \o pad) = result
        /\ ParagraphsOf(pad \o s \o pad) = result

C8_Witness ==
  /\ ParagraphCallOn(<<LowerA, LF, LF, LowerA>>)
  /\ result = Return(2)
  /\ ParagraphsOf(<<LF, LF, LowerA, LF, LF, LowerA, LF, LF>>) = Return(2)

\* C9: on a text made of whitespace only (spaces, tabs, carriage returns,
\* line feeds, no-break spaces) countParagraphs and countSentences return 0.
C9_BlankTextCountsZero ==
  ( /\ op \in {"countParagraphs", "countSentences"}
    /\ text.kind = "string"
    /\ \A i \in 1..Len(text.chars) : IsWhiteSpace(text.chars[i]) ) =>
    result = Return(0)

C9_Witness ==
  /\ op = "countSentences"
  /\ text = Str(<<TAB, CR, LF>>)
  /\ result = Return(0)

----------------------------------------------------------------------------
(* Words.                                                                  *)

WordCallOn(s) == op = "countWords" /\ text.kind = "string" /\ s = text.chars

WordsOf(s) == countWords(analyzer, Str(s))

Replace(s, i, x) == SubSeq(s, 1, i - 1) \o x \o SubSeq(s, i + 1, Len(s))

AllWhiteSpace == {c \in Chars : IsWhiteSpace(c)}
AsciiWhiteSpace == {SP, TAB, LF, CR}

\* The word count of s is that of every text got from s by putting a run out
\* of W before it or after it, or in the place of one of its characters out
\* of W a run of several out of W.
WhitespaceInsensitive(s, W) ==
  \A w \in Pads(W) :
    /\ WordsOf(w \o s) = result
    /\ WordsOf(s \o w) = result
    /\ Len(w) >= 2 =>
         \A i \in 1..Len(s) : s[i] \in W => WordsOf(Replace(s, i, w)) = result

\* C10 as stated: several whitespace characters in the place of one, and
\* whitespace before or after the text, never change the word count.
C10_Stated ==
  \A s \in {text.chars} : WordCallOn(s) => WhitespaceInsensitive(s, AllWhiteSpace)

\* What does hold of C10: the same for the whitespace made of spaces, tabs,
\* carriage returns and line feeds.  U+202F is whitespace to trim() and \s
\* but ExtendNumLet to the word segmenter, which joins it to letters and
\* reports a run of it as word-like.
C10_AsciiWhitespace ==
  \A s \in {text.chars} : WordCallOn(s) => WhitespaceInsensitive(s, AsciiWhiteSpace)

C10_Witness ==
  /\ WordCallOn(<<LowerA, SP, LowerA>>)
  /\ result = Return(2)
  /\ WordsOf(<<TAB, LowerA, SP, CR, LowerA, LF>>) = Return(2)
  /\ WordsOf(<<LowerA, NNBSP, NNBSP, LowerA>>) = Return(1)

\* The maximal runs of characters of s that are not whitespace.
WhitespaceRuns(s) ==
  Cardinality({i \in 1..Len(s) :
                 ~IsWhiteSpace(s[i]) /\ (i = 1 \/ IsWhiteSpace(s[i - 1]))})

\* Where the word segment that ends at i starts.
RECURSIVE WordStart(_, _)
WordStart(s, i) ==
  IF i = 1 \/ WordBreakAfter(s, i - 1) THEN i ELSE WordStart(s, i - 1)

\* The ends of the word segments of s that are word-like.
WordLikeEnds(s) ==
  {i \in 1..Len(s) :
     /\ i = Len(s) \/ WordBreakAfter(s, i)
     /\ IsWordLike(SubSeq(s, WordStart(s, i), i))}

LettersAndAsciiSpace(s) ==
  \A i \in 1..Len(s) : s[i] \in {LowerA} \cup AsciiWhiteSpace

----------------------------------------------------------------------------
(* Characters.                                                             *)

CharacterCallOn(s) ==
  op = "countCharacters" /\ text.kind = "string" /\ s = text.chars

\* The first index from i on that holds no combining accent.
RECURSIVE AfterAccents(_, _)
AfterAccents(s, i) ==
  IF i <= Len(s) /\ s[i] = Acute THEN AfterAccents(s, i + 1) ELSE i

\* The first index from i on that holds neither accent nor joiner.
RECURSIVE AfterJoiners(_, _)
AfterJoiners(s, i) ==
  IF i <= Len(s) /\ s[i] \in {Acute, ZWJ} THEN AfterJoiners(s, i + 1) ELSE i

\* Where the emoji sequence that starts with the emoji at p ends: emoji
\* linked by a joiner, accents allowed before the joiner.
RECURSIVE EmojiSequenceEnd(_, _)
EmojiSequenceEnd(s, p) ==
  LET q == AfterAccents(s, p + 1)
  IN  IF q + 1 <= Len(s) /\ s[q] = ZWJ /\ s[q + 1] = Man
        THEN EmojiSequenceEnd(s, q + 1)
        ELSE p

\* Where the user-perceived character that starts at p ends: a line ending,
\* a control, or a core (a pair of regional indicators, an emoji sequence,
\* any other single code point) with the accents and joiners that follow.
PerceivedCharacterEnd(s, p) ==
  IF s[p] = CR /\ p < Len(s) /\ s[p + 1] = LF THEN p + 1
  ELSE IF s[p] \in {CR, LF, TAB} THEN p
  ELSE LET core ==
             IF s[p] = RegionalA /\ p < Len(s) /\ s[p + 1] = RegionalA THEN p + 1
             ELSE IF s[p] = Man THEN EmojiSequenceEnd(s, p)
             ELSE p
       IN  AfterJoiners(s, core + 1) - 1

RECURSIVE PerceivedCharacters(_, _)
PerceivedCharacters(s, p) ==
  IF p > Len(s) THEN 0
  ELSE 1 + PerceivedCharacters(s, PerceivedCharacterEnd(s, p) + 1)

\* C12: for a text that is not empty countCharacters is the number of
\* user-perceived characters: a base with its combining marks is one, a
\* pair of regional indicators is one, emoji linked by joiners are one.
C12_GraphemeClusters ==
  \A s \in {text.chars} :
    (CharacterCallOn(s) /\ s # <<>>) =>
      result = Return(PerceivedCharacters(s, 1))

C12_Witness ==
  /\ CharacterCallOn(<<LowerA, Acute, Man, ZWJ, Man>>)
  /\ result = Return(2)
  /\ countCharacters(analyzer, Str(<<RegionalA, RegionalA>>)) = Return(1)
  /\ countCharacters(analyzer, Str(<<Man, ZWJ, Man, ZWJ, Man>>)) = Return(1)

----------------------------------------------------------------------------
(* Sentences.                                                              *)

SentenceCallOn(s) ==
  op = "countSentences" /\ text.kind = "string" /\ s = text.chars

\* Where the sentence segment that ends at i starts.
RECURSIVE SentenceStart(_, _, _)
SentenceStart(locale, s, i) ==
  IF i = 1 \/ SentenceBreakAfter(locale, s, i - 1) THEN i
  ELSE SentenceStart(locale, s, i - 1)

\* The ends of the sentence segments of s.
SentenceEnds(locale, s) ==
  {i \in 1..Len(s) : i = Len(s) \/ SentenceBreakAfter(locale, s, i)}

\* C13: for a text that is not blank countSentences is the number of
\* segments of the sentence segmenter that hold a character other than
\* whitespace; the segments made of whitespace only are not counted.
C13_NonBlankSentenceSegments ==
  \A s \in {text.chars} :
    (SentenceCallOn(s) /\ NotBlank(s)) =>
      LET locale == analyzer.sentenceSegmenter.locale
          ends == SentenceEnds(locale, s)
          blank == {i \in ends : ~NotBlank(SubSeq(s, SentenceStart(locale, s, i), i))}
      IN  /\ result = Return(Cardinality(ends \ blank))
          /\ result = Return(Len(segment(analyzer.sentenceSegmenter, text))
                               - Cardinality(blank))

C13_Witness ==
  /\ SentenceCallOn(<<LowerA, LF, LF>>)
  /\ Len(segment(analyzer.sentenceSegmenter, text)) = 2
  /\ result = Return(1)

----------------------------------------------------------------------------
(* Sequences of calls.                                                     *)

\* The call just made repeats the remembered one: same method, same text.
RepeatsRemembered ==
  op # "none" /\ remembered.method = op /\ remembered.text = text

\* C14: in any sequence of calls on one analyzer, a call that repeats an
\* earlier one, whatever came in between, returns what the earlier one
\* returned; and no step changes the analyzer's three segmenters.
C14_CallsDependOnTextOnly ==
  /\ [](RepeatsRemembered => result = remembered.result)
  /\ [][analyzer' = analyzer]_vars

C14_Witness ==
  /\ RepeatsRemembered
  /\ op = "countSentences"
  /\ analyzer = TextAnalyzer("el-GR")
  /\ text = Str(<<Semicolon, LowerA>>)
  /\ result = Return(2)
  /\ result = remembered.result

----------------------------------------------------------------------------
(* The tools (wordcount-tools.ts).                                         *)

\* Variant: the aggregate registered as a sixth tool.
RegisteredTools_withAggregate ==
  [count_words      |-> "countWords",
   count_letters    |-> "countLetters",
   count_characters |-> "countCharacters",
   count_sentences  |-> "countSentences",
   count_paragraphs |-> "countParagraphs",
   analyze_text     |-> "analyzeText"]

\* Variant: the handlers of count_letters and count_characters exchanged.
RegisteredTools_swapped ==
  [count_words      |-> "countWords",
   count_letters    |-> "countCharacters",
   count_characters |-> "countLetters",
   count_sentences  |-> "countSentences",
   count_paragraphs |-> "countParagraphs"]

\* registerWordCountTools: the name of each tool registered and the method
\* its handler was created for.
RegisteredTools ==
  [count_words      |-> "countWords",
   count_letters    |-> "countLetters",
   count_characters |-> "countCharacters",
   count_sentences  |-> "countSentences",
   count_paragraphs |-> "countParagraphs"]

ToolNames == DOMAIN RegisteredTools

\* analyzer[methodName], called on the analyzer with the text.
Invoke(a, methodName, t) ==
  CASE methodName = "countWords"      -> countWords(a, t)
    [] methodName = "countLetters"    -> countLetters(a, t)
    [] methodName = "countCharacters" -> countCharacters(a, t)
    [] methodName = "countSentences"  -> countSentences(a, t)
    [] methodName = "countParagraphs" -> countParagraphs(a, t)
    [] methodName = "analyzeText"     -> analyzeText(a, t)

Digits == <<"0", "1", "2", "3", "4", "5", "6", "7", "8", "9">>

\* Number.prototype.toString of a count: its decimal digits.
RECURSIVE NumberToString(_)
NumberToString(n) ==
  IF n < 10 THEN <<Digits[n + 1]>>
  ELSE NumberToString(n \div 10) \o <<Digits[(n % 10) + 1]>>

\* result.toString(): the digits of a number, "[object Object]" for the
\* object analyzeText returns.
ResultToString(methodName, value) ==
  IF methodName = "analyzeText" THEN <<"[object Object]">>
  ELSE NumberToString(value)

\* Variant: a thrown error swallowed, a payload of "0" returned instead.
Handled_swallows(methodName, outcome) ==
  [returned |->
     Return([content |->
               <<[type |-> "text",
                  text |-> IF outcome.threw THEN <<"0">>
                           ELSE ResultToString(methodName, outcome.value)]>>]),
   logged   |-> {}]

createToolHandler_swallows(a, methodName, args) ==
  Handled_swallows(methodName, Invoke(a, methodName, args.text))

\* The try block after the call of the method, and the catch block: the
\* content returned for a result, the error logged and thrown again.
Handled(methodName, outcome) ==
  IF outcome.threw
    THEN [returned |-> outcome,
          logged   |-> {<<"Error in", methodName>>}]
    ELSE [returned |->
            Return([content |->
                      <<[type |-> "text",
                         text |-> ResultToString(methodName, outcome.value)]>>]),
          logged   |-> {}]

\* The handler createToolHandler returns, applied to args: what it returns
\* or throws, and what it writes with console.error.
createToolHandler(a, methodName, args) ==
  Handled(methodName, Invoke(a, methodName, args.text))

\* Variant: a schema that accepts anything.
TextInputSchema_any(args) == [success |-> TRUE, message |-> <<>>]

\* TextInputSchema, text: z.string(), applied to the arguments of a call.
TextInputSchema(args) ==
  IF args.text.kind = "string" THEN [success |-> TRUE, message |-> <<>>]
  ELSE IF args.text.kind = "undefined"
    THEN [success |-> FALSE, message |-> <<"Required">>]
    ELSE [success |-> FALSE,
          message |-> <<"Expected string, received", args.text.kind>>]

----------------------------------------------------------------------------
(* The server process (index.ts, main) and the dispatcher it connects.     *)

\* 'hello world', the text of the concurrent requests of the end-to-end test.
HelloWorld ==
  <<LowerA, LowerA, LowerA, LowerA, LowerA, SP,
    LowerA, LowerA, LowerA, LowerA, LowerA>>

ServerTexts == {Str(<<>>), Str(HelloWorld)}

\* The arguments of a call: a text, none ({}), null, a number.
Arguments == {[text |-> t] : t \in ServerTexts \cup {Undefined, Null, One}}

RequestNames == ToolNames \cup {"analyze_text", "invalid_tool"}

ListRequest ==
  [method |-> "tools/list", name |-> "", arguments |-> [text |-> Undefined]]

\* Every name called on "hello world", and count_words called on every
\* kind of argument.
CallRequests ==
  {[method |-> "tools/call", name |-> n, arguments |-> [text |-> Str(HelloWorld)]] :
     n \in RequestNames}
  \cup {[method |-> "tools/call", name |-> "count_words", arguments |-> a] :
          a \in Arguments}

Requests == {ListRequest} \cup CallRequests

\* What stands for the analyzer before registerWordCountTools has built it.
NoAnalyzer == [built |-> FALSE]

ResultResponse(id, content) ==
  [id |-> id, kind |-> "result", error |-> <<>>, content |-> content, tools |-> {}]

ErrorResponse(id, error) ==
  [id |-> id, kind |-> "error", error |-> error, content |-> <<>>, tools |-> {}]

ToolsResponse(id, names) ==
  [id |-> id, kind |-> "result", error |-> <<>>, content |-> <<>>, tools |-> names]

\* The response the dispatcher makes of an error thrown by a handler: the
\* mapping the specification gives ("a structured error response"); the
\* dispatcher is the MCP library, a dependency of the program.
ThrownResponse(id, error) == ErrorResponse(id, <<"Error", error>>)

\* The response the dispatcher makes of what a handler returned or threw.
HandlerResponse(id, returned) ==
  IF returned.threw THEN ThrownResponse(id, returned.error)
  ELSE ResultResponse(id, returned.value.content)

InitServer ==
  /\ analyzer = NoAnalyzer
  /\ text = Undefined
  /\ op = "none"
  /\ result = NoResult
  /\ remembered = NoCall
  /\ phase = "starting"
  /\ registered = {}
  /\ listeners = {}
  /\ requests = {}
  /\ responses = {}
  /\ invoked = {}
  /\ stderr = {}
  /\ closeCalls = 0
  /\ closeOutcome = "none"
  /\ exitCode = NotExited

\* main, its first statements: the start logged, the McpServer constructed.
Construct ==
  /\ phase = "starting"
  /\ phase' = "constructed"
  /\ stderr' = stderr \cup {<<"Starting wordcount-mcp server...">>}
  /\ UNCHANGED <<analyzer, text, op, result, remembered, registered, listeners,
                 requests, responses, invoked, closeCalls, closeOutcome, exitCode>>

\* Variant: no tool registered by the time the transport is created.
RegisterTools_none ==
  /\ phase = "constructed"
  /\ phase' = "registered"
  /\ analyzer' = TextAnalyzer(DefaultLocale)
  /\ UNCHANGED <<text, op, result, remembered, registered, listeners, requests,
                 responses, invoked, stderr, closeCalls, closeOutcome, exitCode>>

\* registerWordCountTools(server): the analyzer made, the tools registered.
RegisterTools ==
  /\ phase = "constructed"
  /\ phase' = "registered"
  /\ analyzer' = TextAnalyzer(DefaultLocale)
  /\ registered' = ToolNames
  /\ UNCHANGED <<text, op, result, remembered, listeners, requests, responses,
                 invoked, stderr, closeCalls, closeOutcome, exitCode>>

\* server.connect(transport) called: the transport reads stdin, main awaits.
Connect ==
  /\ phase = "registered"
  /\ phase' = "connected"
  /\ UNCHANGED <<analyzer, text, op, result, remembered, registered, listeners,
                 requests, responses, invoked, stderr, closeCalls, closeOutcome,
                 exitCode>>

ShutdownTriggers == {"SIGINT", "SIGTERM", "uncaughtException", "unhandledRejection"}

\* main after its await, connect resolved: the success logged, shutdown
\* made the listener of the four events.
InstallHandlers ==
  /\ phase = "connected"
  /\ phase' = "running"
  /\ stderr' = stderr \cup {<<"wordcount-mcp server started successfully">>}
  /\ listeners' = ShutdownTriggers
  /\ UNCHANGED <<analyzer, text, op, result, remembered, registered, requests,
                 responses, invoked, closeCalls, closeOutcome, exitCode>>

\* The statements of main's try block up to its await.
StartingPhases == {"starting", "constructed", "registered", "connected"}

\* Variant: the catch block logs and returns, the process stays.
StartFails_noExit ==
  /\ phase \in StartingPhases
  /\ phase' = "running"
  /\ stderr' = stderr \cup {<<"Starting wordcount-mcp server...">>,
                            <<"Failed to start wordcount-mcp server:">>}
  /\ listeners' = ShutdownTriggers
  /\ UNCHANGED <<analyzer, text, op, result, remembered, registered, requests,
                 responses, invoked, closeCalls, closeOutcome, exitCode>>

\* main, when the construction, the registration or connect throws, or the
\* promise of connect is rejected: catch, the failure logged, process.exit(1).
StartFails ==
  /\ phase \in StartingPhases
  /\ phase' = "exited"
  /\ exitCode' = 1
  /\ stderr' = stderr \cup {<<"Starting wordcount-mcp server...">>,
                            <<"Failed to start wordcount-mcp server:">>}
  /\ UNCHANGED <<analyzer, text, op, result, remembered, registered, listeners,
                 requests, responses, invoked, closeCalls, closeOutcome>>

\* A signal that arrives before process.on has installed shutdown ends the
\* process the way the platform does: 128 + the signal's number.
SignalWhileStarting(signal) ==
  /\ phase \in StartingPhases
  /\ signal \notin listeners
  /\ phase' = "exited"
  /\ exitCode' = IF signal = "SIGINT" THEN 130 ELSE 143
  /\ UNCHANGED <<analyzer, text, op, result, remembered, registered, listeners,
                 requests, responses, invoked, stderr, closeCalls, closeOutcome>>

\* What the listener of a trigger writes before it calls shutdown.
TriggerLog(trigger) ==
  CASE trigger = "uncaughtException"  -> {<<"Uncaught exception:">>}
    [] trigger = "unhandledRejection" -> {<<"Unhandled rejection at:">>}
    [] OTHER                          -> {}

\* Variant: shutdown that does not await close() and exits at once.
Trigger_noAwait(trigger) ==
  /\ phase = "running"
  /\ trigger \in listeners
  /\ closeCalls < MaxShutdowns
  /\ closeCalls' = closeCalls + 1
  /\ phase' = "exited"
  /\ exitCode' = 0
  /\ stderr' = stderr \cup TriggerLog(trigger)
                      \cup {<<"Shutting down wordcount-mcp server...">>}
  /\ UNCHANGED <<analyzer, text, op, result, remembered, registered, listeners, requests, responses,
                 invoked, closeOutcome>>

\* A listener runs shutdown, which runs up to its await: it has logged and
\* called server.close().
Trigger(trigger) ==
  /\ phase = "running"
  /\ trigger \in listeners
  /\ closeCalls < MaxShutdowns
  /\ closeCalls' = closeCalls + 1
  /\ stderr' = stderr \cup TriggerLog(trigger)
                      \cup {<<"Shutting down wordcount-mcp server...">>}
  /\ UNCHANGED <<analyzer, text, op, result, remembered, registered, listeners, phase, requests,
                 responses, invoked, closeOutcome, exitCode>>

\* shutdown after its await, close() fulfilled: process.exit(0).
CloseCompletes ==
  /\ phase = "running"
  /\ closeCalls > 0
  /\ closeOutcome' = "completed"
  /\ exitCode' = 0
  /\ phase' = "exited"
  /\ UNCHANGED <<analyzer, text, op, result, remembered, registered, listeners, requests, responses,
                 invoked, stderr, closeCalls>>

\* shutdown after its await, close() rejected: catch, process.exit(1).
CloseThrows ==
  /\ phase = "running"
  /\ closeCalls > 0
  /\ closeOutcome' = "threw"
  /\ exitCode' = 1
  /\ phase' = "exited"
  /\ stderr' = stderr \cup {<<"Error during shutdown:">>}
  /\ UNCHANGED <<analyzer, text, op, result, remembered, registered, listeners, requests, responses,
                 invoked, closeCalls>>

\* The transport is connected and the process runs: what is written to
\* stdin is read and served, whether or not main has resumed after its await.
Listening == phase \in {"connected", "running"}

\* A request read from stdin; the transport reads until close() is called.
Receive(r) ==
  /\ Listening
  /\ closeCalls = 0
  /\ Cardinality(requests) < MaxRequests
  /\ requests' = requests \cup
       {[id |-> Cardinality(requests) + 1, request |-> r, stage |-> "received"]}
  /\ UNCHANGED <<analyzer, text, op, result, remembered, registered, listeners, phase, responses,
                 invoked, stderr, closeCalls, closeOutcome, exitCode>>

\* The response to q written to stdout.
Answer(q, response) ==
  /\ requests' = (requests \ {q}) \cup {[q EXCEPT !.stage = "answered"]}
  /\ responses' = responses \cup {response}

ListTools(q) ==
  /\ Listening
  /\ q.stage = "received"
  /\ q.request.method = "tools/list"
  /\ Answer(q, ToolsResponse(q.id, registered))
  /\ UNCHANGED <<analyzer, text, op, result, remembered, registered, listeners, phase, invoked,
                 stderr, closeCalls, closeOutcome, exitCode>>

\* tools/call with a name no tool was registered under.
RejectTool(q) ==
  /\ Listening
  /\ q.stage = "received"
  /\ q.request.method = "tools/call"
  /\ q.request.name \notin registered
  /\ Answer(q, ErrorResponse(q.id, <<"Tool not found", q.request.name>>))
  /\ UNCHANGED <<analyzer, text, op, result, remembered, registered, listeners, phase, invoked,
                 stderr, closeCalls, closeOutcome, exitCode>>

\* tools/call with arguments the tool's inputSchema does not accept.
RejectArguments(q) ==
  /\ Listening
  /\ q.stage = "received"
  /\ q.request.method = "tools/call"
  /\ q.request.name \in registered
  /\ ~TextInputSchema(q.request.arguments).success
  /\ Answer(q, ErrorResponse(q.id, <<"Invalid arguments">>
                                     \o TextInputSchema(q.request.arguments).message))
  /\ UNCHANGED <<analyzer, text, op, result, remembered, registered, listeners, phase, invoked,
                 stderr, closeCalls, closeOutcome, exitCode>>

AcceptArguments(q) ==
  /\ Listening
  /\ q.stage = "received"
  /\ q.request.method = "tools/call"
  /\ q.request.name \in registered
  /\ TextInputSchema(q.request.arguments).success
  /\ requests' = (requests \ {q}) \cup {[q EXCEPT !.stage = "validated"]}
  /\ UNCHANGED <<analyzer, text, op, result, remembered, registered, listeners, phase, responses,
                 invoked, stderr, closeCalls, closeOutcome, exitCode>>

\* Variant: the arguments kept in one slot that every request overwrites.
HandlerArguments_shared(q) ==
  LET last == CHOOSE x \in requests : \A y \in requests : y.id <= x.id
  IN  last.request.arguments

\* The args the handler's closure was called with.
HandlerArguments(q) == q.request.arguments

\* The handler registered under the tool's name, run to its end.
Handle(q, methodName, args, handled) ==
  /\ invoked' = invoked \cup
        {[id |-> q.id, method |-> methodName, text |-> args.text]}
  /\ stderr' = stderr \cup handled.logged
  /\ Answer(q, HandlerResponse(q.id, handled.returned))

\* The handler of the tool run on the validated arguments, and its outcome
\* answered.
RunHandler(q) ==
  /\ Listening
  /\ q.stage = "validated"
  /\ Handle(q, RegisteredTools[q.request.name], HandlerArguments(q),
            createToolHandler(analyzer, RegisteredTools[q.request.name],
                              HandlerArguments(q)))
  /\ UNCHANGED <<analyzer, text, op, result, remembered, registered, listeners, phase, closeCalls,
                 closeOutcome, exitCode>>

NextServer ==
  \/ Construct
  \/ RegisterTools
  \/ Connect
  \/ InstallHandlers
  \/ StartFails
  \/ \E signal \in {"SIGINT", "SIGTERM"} : SignalWhileStarting(signal)
  \/ \E r \in Requests : Receive(r)
  \/ \E q \in requests : ListTools(q)
  \/ \E q \in requests : RejectTool(q)
  \/ \E q \in requests : RejectArguments(q)
  \/ \E q \in requests : AcceptArguments(q)
  \/ \E q \in requests : RunHandler(q)
  \/ \E trigger \in ShutdownTriggers : Trigger(trigger)
  \/ CloseCompletes
  \/ CloseThrows

SpecServer == InitServer /\ [][NextServer]_vars

\* The requests in flight while the server shuts down: one of each way a
\* request is answered.
ShutdownRequests ==
  {ListRequest}
  \cup {[method |-> "tools/call", name |-> n, arguments |-> [text |-> Str(HelloWorld)]] :
          n \in {"count_words", "analyze_text"}}
  \cup {[method |-> "tools/call", name |-> "count_words", arguments |-> [text |-> Null]]}

NextShutdown ==
  \/ Construct
  \/ RegisterTools
  \/ Connect
  \/ InstallHandlers
  \/ StartFails
  \/ \E signal \in {"SIGINT", "SIGTERM"} : SignalWhileStarting(signal)
  \/ \E r \in ShutdownRequests : Receive(r)
  \/ \E q \in requests : ListTools(q)
  \/ \E q \in requests : RejectTool(q)
  \/ \E q \in requests : RejectArguments(q)
  \/ \E q \in requests : AcceptArguments(q)
  \/ \E q \in requests : RunHandler(q)
  \/ \E trigger \in ShutdownTriggers : Trigger(trigger)
  \/ CloseCompletes
  \/ CloseThrows

\* A close() that was called settles: its promise is fulfilled or rejected.
SpecServerFair ==
  InitServer /\ [][NextShutdown]_vars /\ WF_vars(CloseCompletes \/ CloseThrows)

\* A handler called with whatever arguments it is handed.
Hold(name, handled) ==
  /\ op' = name
  /\ result' = handled.returned
  /\ stderr' = stderr \cup handled.logged

CallHandler(name) ==
  /\ op = "none"
  /\ Hold(name, createToolHandler(analyzer, RegisteredTools[name], [text |-> text]))
  /\ UNCHANGED <<analyzer, text, remembered, registered, listeners, phase, requests, responses, invoked,
                 closeCalls, closeOutcome, exitCode>>

NextHandler ==
  \/ \E name \in ToolNames : CallHandler(name)
  \/ TakeResult

SpecHandler == Init /\ [][NextHandler]_vars

----------------------------------------------------------------------------
(* Properties of the tools and of the server.                              *)

FiveTools ==
  {"count_words", "count_letters", "count_characters", "count_sentences",
   "count_paragraphs"}

ResponsesTo(q) == {resp \in responses : resp.id = q.id}

InvokedFor(q) == {v \in invoked : v.id = q.id}

IsToolCall(q) == q.request.method = "tools/call"

\* A call of one of the five tools on a string.
IsCountCall(q) ==
  /\ IsToolCall(q)
  /\ q.request.name \in FiveTools
  /\ q.request.arguments.text.kind = "string"

\* The method each tool stands for, run by itself on a text.
CountAlone(name, t) ==
  LET alone == TextAnalyzer(DefaultLocale)
  IN  CASE name = "count_words"      -> countWords(alone, t)
        [] name = "count_letters"    -> countLetters(alone, t)
        [] name = "count_characters" -> countCharacters(alone, t)
        [] name = "count_sentences"  -> countSentences(alone, t)
        [] name = "count_paragraphs" -> countParagraphs(alone, t)

\* The calls of the five tools on a string that a client may make, and what
\* the method of each returns when it is run alone.
CountCalls ==
  {r \in CallRequests : r.name \in FiveTools /\ r.arguments.text.kind = "string"}

RunAlone == [r \in CountCalls |-> CountAlone(r.name, r.arguments.text)]

\* The number a sequence of decimal digits writes.
RECURSIVE DecimalValue(_)
DecimalValue(digits) ==
  IF digits = <<>> THEN 0
  ELSE 10 * DecimalValue(SubSeq(digits, 1, Len(digits) - 1))
         + (CHOOSE d \in 0..9 : Digits[d + 1] = digits[Len(digits)])

\* digits is the decimal representation of n: its value is n, and it has no
\* leading zero.
IsDecimalOf(digits, n) ==
  /\ Len(digits) >= 1
  /\ \A k \in 1..Len(digits) : \E d \in 0..9 : Digits[d + 1] = digits[k]
  /\ Len(digits) > 1 => digits[1] # "0"
  /\ DecimalValue(digits) = n

\* C15: however the handling of concurrent requests is interleaved, a
\* response carries the id of a request that was received, no request gets
\* two, and the response to a tool call on a string is what that operation,
\* run alone on that text, gives.
C15_ConcurrentCallsIsolated ==
  /\ \A resp \in responses :
       \E q \in requests : q.id = resp.id /\ q.stage = "answered"
  /\ \A q \in requests :
       /\ Cardinality(ResponsesTo(q)) = IF q.stage = "answered" THEN 1 ELSE 0
       /\ IsCountCall(q) =>
            \A resp \in ResponsesTo(q) :
              /\ resp.kind = "result"
              /\ Len(resp.content) = 1
              /\ IsDecimalOf(resp.content[1].text, RunAlone[q.request].value)

\* The second request was answered while the first was still being handled.
C15_Witness ==
  \E q1, q2 \in requests :
    /\ q1.id = 1 /\ q1.stage = "validated"
    /\ q1.request.name = "count_words" /\ q1.request.arguments.text = Str(HelloWorld)
    /\ q2.id = 2 /\ q2.stage = "answered"
    /\ q2.request.name = "count_letters" /\ q2.request.arguments.text = Str(HelloWorld)
    /\ \E resp \in ResponsesTo(q2) : resp.content[1].text = <<"1", "0">>

\* C16: the answer to a call of one of the five tools on a string is one
\* content item of type "text" whose text is the decimal representation of
\* what the method of that tool returns on the text, and that method, on
\* that text, is what was invoked for the request.
C16_ToolReturnsDecimalCount ==
  \A q \in requests :
    (IsCountCall(q) /\ q.stage = "answered") =>
      LET t == q.request.arguments.text
          methodName ==
            CASE q.request.name = "count_words"      -> "countWords"
              [] q.request.name = "count_letters"    -> "countLetters"
              [] q.request.name = "count_characters" -> "countCharacters"
              [] q.request.name = "count_sentences"  -> "countSentences"
              [] q.request.name = "count_paragraphs" -> "countParagraphs"
      IN  /\ InvokedFor(q) = {[id |-> q.id, method |-> methodName, text |-> t]}
          /\ \A resp \in ResponsesTo(q) :
               /\ resp.kind = "result"
               /\ Len(resp.content) = 1
               /\ resp.content[1].type = "text"
               /\ IsDecimalOf(resp.content[1].text, RunAlone[q.request].value)

C16_Witness ==
  \E q \in requests :
    /\ q.request.name = "count_characters"
    /\ q.request.arguments.text = Str(HelloWorld)
    /\ q.stage = "answered"
    /\ InvokedFor(q) # {}
    /\ \E resp \in ResponsesTo(q) :
         resp.content = <<[type |-> "text", text |-> <<"1", "1">>]>>

\* C17: tools/list names the five tools and no other, and a call that names
\* anything else is answered with an error, no analyzer method invoked.
C17_OnlyFiveTools ==
  \A q \in requests :
    /\ (q.request.method = "tools/list") =>
         \A resp \in ResponsesTo(q) : resp.kind = "result" /\ resp.tools = FiveTools
    /\ (IsToolCall(q) /\ q.request.name \notin FiveTools) =>
         /\ InvokedFor(q) = {}
         /\ q.stage # "validated"
         /\ \A resp \in ResponsesTo(q) : resp.kind = "error" /\ resp.content = <<>>

C17_Witness ==
  \E q1, q2 \in requests :
    /\ q1.request.method = "tools/list" /\ q1.stage = "answered"
    /\ IsToolCall(q2) /\ q2.request.name = "analyze_text"
    /\ q2.request.arguments.text = Str(HelloWorld)
    /\ q2.stage = "answered"
    /\ \E resp \in ResponsesTo(q2) : resp.kind = "error"

\* C18: a tool call whose text is missing, null or a number is answered
\* with an error and never reaches a handler: no analyzer method is invoked
\* for it.
C18_NonStringsRejected ==
  \A q \in requests :
    (IsToolCall(q) /\ q.request.arguments.text.kind # "string") =>
      /\ InvokedFor(q) = {}
      /\ q.stage # "validated"
      /\ \A resp \in ResponsesTo(q) : resp.kind = "error" /\ resp.content = <<>>

C18_Witness ==
  \E q1, q2 \in requests :
    /\ q1.request.name = "count_words" /\ q1.request.arguments.text = Null
    /\ q1.stage = "answered"
    /\ \E resp \in ResponsesTo(q1) :
         resp.error = <<"Invalid arguments", "Expected string, received", "null">>
    /\ q2.request.name = "count_words" /\ q2.request.arguments.text = Undefined
    /\ q2.stage = "answered"
    /\ \E resp \in ResponsesTo(q2) : resp.kind = "error"
    /\ invoked = {}

\* C19: when the analyzer method throws inside a handler, the handler has
\* logged the error and throws that same error, so that it returns no
\* content, and the response the dispatcher makes of it is an error.
C19_HandlerRethrows ==
  (op \in FiveTools /\ Invoke(analyzer, RegisteredTools[op], text).threw) =>
    /\ result = Invoke(analyzer, RegisteredTools[op], text)
    /\ <<"Error in", RegisteredTools[op]>> \in stderr
    /\ HandlerResponse(1, result).kind = "error"

C19_Witness ==
  /\ op = "count_sentences"
  /\ text = One
  /\ result = Throw
  /\ <<"Error in", "countSentences">> \in stderr

Started == <<"wordcount-mcp server started successfully">> \in stderr

\* C20: once the server has started, a shutdown trigger calls
\* server.close(); a close() that was called leads to the exit of the
\* process; and the process has not exited unless a close() has settled,
\* with code 0 if it completed and code 1 if it threw.
C20_ShutdownClosesThenExits ==
  /\ [][(\E trigger \in ShutdownTriggers : Trigger(trigger))
          => closeCalls' = closeCalls + 1]_vars
  /\ (closeCalls > 0) ~> (exitCode # NotExited)
  /\ [](Started /\ exitCode # NotExited =>
          /\ closeCalls > 0
          /\ closeOutcome \in {"completed", "threw"}
          /\ closeOutcome = "completed" => exitCode = 0
          /\ closeOutcome = "threw" => exitCode = 1)

C20_Witness ==
  /\ Started
  /\ <<"Uncaught exception:">> \in stderr
  /\ closeCalls = 2
  /\ closeOutcome = "threw"
  /\ exitCode = 1

----------------------------------------------------------------------------
(* Properties of the start-up.                                             *)

SuccessLogged == <<"wordcount-mcp server started successfully">> \in stderr

FailureLogged == <<"Failed to start wordcount-mcp server:">> \in stderr

\* C21: the five tools are registered before the transport is connected;
\* the success message is written by the step that resumes main after
\* server.connect(transport), and by no step before it; so whenever a
\* request has been received or answered, or the success message has been
\* written, the five tools are registered.
C21_ToolsBeforeConnectBeforeSuccess ==
  /\ [](phase \in {"connected", "running"} => registered = FiveTools)
  /\ [][(~SuccessLogged /\ SuccessLogged') => phase = "connected"]_vars
  /\ [](SuccessLogged => phase \in {"running", "exited"})
  /\ []((requests # {} \/ responses # {} \/ SuccessLogged) => registered = FiveTools)

\* A request answered after the start-up, with the tools it lists.
C21_Witness ==
  /\ phase = "running"
  /\ SuccessLogged
  /\ \E q \in requests :
       /\ q.request.method = "tools/list"
       /\ q.stage = "answered"
       /\ \E resp \in ResponsesTo(q) : resp.tools = FiveTools

\* C22: when the start-up has failed (the construction of the server, the
\* registration of the tools or server.connect), the process has exited
\* with code 1, the success message was not logged, and no listener of a
\* signal or of an exception was installed, so that close() was never called.
C22_FailedStartExitsOne ==
  FailureLogged =>
    /\ phase = "exited"
    /\ exitCode = 1
    /\ ~SuccessLogged
    /\ listeners = {}
    /\ closeCalls = 0

\* server.connect failed, after the tools were registered.
C22_Witness ==
  /\ FailureLogged
  /\ registered = FiveTools
  /\ exitCode = 1
  /\ listeners = {}

----------------------------------------------------------------------------
(* Repeated shutdown triggers.                                             *)

\* C23 as stated: whatever triggers arrive while a shutdown awaits
\* server.close(), close() is invoked at most once (and the process exits
\* once).  shutdown keeps no record of having been called: every trigger
\* calls close() again.
C23_Stated == closeCalls <= 1

\* C23, the part that holds: the process exits once; after process.exit no
\* step of the program follows and the exit code stays as it is.
C23_ExitsOnce ==
  [][exitCode # NotExited => (exitCode' = exitCode /\ closeCalls' = closeCalls)]_vars

\* A second trigger has called close() while the first call was pending.
C23_Witness ==
  /\ phase = "running"
  /\ closeCalls = 2
  /\ closeOutcome = "none"
  /\ exitCode = NotExited

----------------------------------------------------------------------------
(* Paragraph counts of zero.                                               *)

\* C24: countParagraphs returns 0 exactly when the text is absent, empty or
\* made of whitespace only; a text with a character that is not whitespace
\* counts at least 1, whatever line breaks it holds.
C24_ZeroIffBlankOrAbsent ==
  (op = "countParagraphs" /\ IsText(text)) =>
    /\ ~result.threw
    /\ result.value >= 0
    /\ (result.value = 0) <=> (text.kind # "string" \/ ~NotBlank(text.chars))
    /\ (text.kind = "string" /\ NotBlank(text.chars)) => result.value >= 1

\* One letter between paragraph breaks and whitespace counts 1.
C24_Witness ==
  /\ op = "countParagraphs"
  /\ text = Str(<<LF, LF, LowerA, LF, NNBSP>>)
  /\ result = Return(1)

====
